---- MODULE Spec2Model ----
(***************************************************************************)
(* A model of codes/data/audio/nv_tacotron_dataset.py: the TextMelLoader   *)
(* dataset (construction, __getitem__ with its retry path, get_mel) and    *)
(* the TextMelCollate batch collator.                                      *)
(*                                                                         *)
(* Three specifications share the module:                                  *)
(*   Spec / FairSpec  construction of a TextMelLoader and concurrent       *)
(*                    __getitem__ calls of several workers;                *)
(*   MelSpec          one call of TextMelLoader.get_mel on raw audio;      *)
(*   CollateSpec      one call of TextMelCollate.__call__.                 *)
(***************************************************************************)
EXTENDS Integers, Sequences, FiniteSets, TLC

VARIABLES
    \* ---- the dataset (Spec) ----
    constructed,          \* how __init__ ended: "no" (not called yet), "yes", or
                          \* the exception it raised
    audiopaths_and_text,  \* self.audiopaths_and_text
    load_mel_from_disk,   \* self.load_mel_from_disk
    return_wavs,          \* self.return_wavs
    max_mel_len,          \* self.max_mel_len
    max_text_len,         \* self.max_text_len
    needs_collate,        \* self.needs_collate
    rng,                  \* the state of the process-global generator of `random`
    workers,              \* per worker: the frame of its __getitem__ call
    \* ---- get_mel (MelSpec) ----
    mel,                  \* the frame of one get_mel call
    \* ---- the collator (CollateSpec) ----
    col                   \* the frame of one TextMelCollate.__call__

selfVars == <<audiopaths_and_text, load_mel_from_disk, return_wavs,
              max_mel_len, max_text_len, needs_collate>>
vars == <<constructed, selfVars, rng, workers, mel, col>>

\* Python's None, for the optional options and for a null mel.
None == -1

(***************************************************************************)
(* Bounds                                                                  *)
(***************************************************************************)
MaxLen == 2         \* token counts and mel frame counts of entries: 0..MaxLen
RngPeriod == 2      \* positions of the generator's stream that are told apart

\* The length caps an options object may carry (max_mel_length,
\* max_text_length): absent, or one below the longest entry.
Caps == {None, MaxLen - 1}

Workers == {"w1", "w2"}

\* What one manifest row yields once read: the transcript's token count and the
\* mel its audio file gives (None when get_mel returns None).
Entries == [path : {1, 2}, text_len : 0..MaxLen, mel : {None} \cup 0..MaxLen]

\* The manifest files: two rows, of distinct paths.
Manifests == {f \in [1..2 -> Entries] : f[1].path = 1 /\ f[2].path = 2}

HParams == [fetcher_mode : {"lj", "mozilla_cv", "unknown"},
            load_mel_from_disk : BOOLEAN,
            return_wavs : BOOLEAN,
            needs_collate : BOOLEAN,
            max_mel_length : Caps,
            max_text_length : Caps]

(***************************************************************************)
(* TextMelLoader.__init__                                                  *)
(***************************************************************************)
\* fetcher_mode selects a fetcher, or NotImplementedError is raised.
FetcherKnown(h) == h.fetcher_mode \in {"lj", "mozilla_cv"}

\* assert not (self.load_mel_from_disk and self.return_wavs)
ModesExclusive(h) == ~(h.load_mel_from_disk /\ h.return_wavs)

CapsPresentAlways(h) == TRUE
\* if not self.needs_collate: assert both caps are not None
CapsPresent(h) ==
    h.needs_collate \/ (h.max_mel_length # None /\ h.max_text_length # None)

\* How __init__ ends on options h: the first check that fails raises.
InitOutcome(h) ==
    IF ~FetcherKnown(h) THEN "NotImplementedError"
    ELSE IF ~ModesExclusive(h) THEN "AssertionError"
    ELSE IF ~CapsPresent(h) THEN "AssertionError"
    ELSE "yes"

\* random.shuffle(self.audiopaths_and_text): the list in some order.
Shuffles(list) ==
    {[i \in 1..Len(list) |-> list[pi[i]]] :
        pi \in {q \in [1..Len(list) -> 1..Len(list)] :
                    \A i, j \in 1..Len(list) : i # j => q[i] # q[j]}}

IdleFrame == [pc |-> "idle", first |-> 0, index |-> 0, t |-> 0, m |-> None,
              p |-> 0, result |-> [kind |-> "none"]]

\* How TextMelLoader(h) ends, and the configuration it leaves in self.
InitEnds(h) ==
    /\ constructed = "no"
    /\ constructed' = InitOutcome(h)
    /\ IF InitOutcome(h) = "yes"
       THEN /\ load_mel_from_disk' = h.load_mel_from_disk
            /\ return_wavs' = h.return_wavs
            /\ max_mel_len' = h.max_mel_length
            /\ max_text_len' = h.max_text_length
            /\ needs_collate' = h.needs_collate
       ELSE UNCHANGED <<load_mel_from_disk, return_wavs, max_mel_len,
                        max_text_len, needs_collate>>

\* TextMelLoader(h) on a manifest file f: the list is fetched, then shuffled
\* under random.seed(hparams.seed).
Construct(h, f) ==
    /\ InitEnds(h)
    /\ IF InitOutcome(h) = "yes"
       THEN /\ \E s \in Shuffles(f) : audiopaths_and_text' = s
            /\ rng' = 0
       ELSE UNCHANGED <<audiopaths_and_text, rng>>
    /\ UNCHANGED <<workers, mel, col>>

TextMelLoader_init ==
    /\ constructed = "no"
    /\ \E h \in HParams : \E f \in Manifests : Construct(h, f)
(***************************************************************************)
(* TextMelLoader.__getitem__                                               *)
(***************************************************************************)
\* len(self)
DatasetLen == Len(audiopaths_and_text)

\* get_mel_text_pair: the token sequence, the mel (or None) and the path of a
\* manifest entry; text and mel are kept by their sizes t.shape[0], m.shape[-1].
get_mel_text_pair(entry) == [t |-> entry.text_len, m |-> entry.mel, p |-> entry.path]

IsInvalidNoMelCap(t, m) ==
    \/ m = None
    \/ (max_text_len # None /\ t > max_text_len)
IsInvalidNoTextCap(t, m) ==
    \/ m = None
    \/ (max_mel_len # None /\ m > max_mel_len)
IsInvalidOffByOne(t, m) ==
    \/ m = None
    \/ (max_mel_len # None /\ m >= max_mel_len)
    \/ (max_text_len # None /\ t >= max_text_len)
\* The condition of the retry branch.
IsInvalid(t, m) ==
    \/ m = None
    \/ (max_mel_len # None /\ m > max_mel_len)
    \/ (max_text_len # None /\ t > max_text_len)

randintLowOnly(a, b) == {a}
\* random.randint(a, b): any integer of a..b, both ends included.
randint(a, b) == a..b

\* One draw advances the global generator.
rngNext(r) == (r + 1) % RngPeriod

\* F.pad(x, (0, k)) on the last dimension, by size: k > 0 appends k zeros,
\* k < 0 crops.
PadSize(size, k) == size + k

\* The frame after line 109 of a call self[index].
Fetched(frame, index) ==
    LET e == get_mel_text_pair(audiopaths_and_text[index + 1])
    IN  [frame EXCEPT !.pc = "fetched", !.index = index,
                      !.t = e.t, !.m = e.m, !.p = e.p]

\* A worker calls dataset[index].
Call(w, index) ==
    /\ constructed = "yes"
    /\ workers[w].pc = "idle"
    /\ index \in 0..(DatasetLen - 1)
    /\ workers' = [workers EXCEPT ![w] = Fetched([IdleFrame EXCEPT !.first = index], index)]
    /\ UNCHANGED <<constructed, selfVars, rng, mel, col>>

\* The retry branch, drawing rv: rv = random.randint(0, len(self)-1); self[rv].
RetryWith(w, rv) ==
    /\ workers[w].pc = "fetched"
    /\ IsInvalid(workers[w].t, workers[w].m)
    /\ rv \in randint(0, DatasetLen - 1)
    /\ rng' = rngNext(rng)
    /\ workers' = [workers EXCEPT ![w] = Fetched(@, rv)]
    /\ UNCHANGED <<constructed, selfVars, mel, col>>

Retry(w) == \E rv \in 0..(DatasetLen - 1) : RetryWith(w, rv)

\* What a call returns for a sample that passed the check.
ReturnValue(f) ==
    IF needs_collate
    THEN [kind |-> "tuple", t |-> f.t, m |-> f.m, p |-> f.p]
    ELSE [kind |-> "record",
          padded_text |-> IF f.t # max_text_len
                          THEN PadSize(f.t, max_text_len - f.t) ELSE f.t,
          input_lengths |-> f.t,
          padded_mel |-> IF f.m # max_mel_len
                         THEN PadSize(f.m, max_mel_len - f.m) ELSE f.m,
          output_lengths |-> f.m,
          filenames |-> f.p]

\* The sample passed the check: pad it when needs_collate is off, and return.
\* Subtracting from a cap that is None raises TypeError.
Return(w) ==
    /\ workers[w].pc = "fetched"
    /\ ~IsInvalid(workers[w].t, workers[w].m)
    /\ IF ~needs_collate /\ (max_mel_len = None \/ max_text_len = None)
       THEN workers' = [workers EXCEPT ![w].pc = "raised"]
       ELSE workers' = [workers EXCEPT ![w].pc = "done",
                                       ![w].result = ReturnValue(workers[w])]
    /\ UNCHANGED <<constructed, selfVars, rng, mel, col>>

(***************************************************************************)
(* Spec: a dataset is constructed, then workers call __getitem__           *)
(***************************************************************************)
MelIdle == [pc |-> "off"]
ColIdle == [pc |-> "off"]

Init ==
    /\ constructed = "no"
    /\ audiopaths_and_text = <<>>
    /\ load_mel_from_disk = FALSE
    /\ return_wavs = FALSE
    /\ max_mel_len = None
    /\ max_text_len = None
    /\ needs_collate = TRUE
    /\ rng \in 0..(RngPeriod - 1)
    /\ workers = [w \in Workers |-> IdleFrame]
    /\ mel = MelIdle
    /\ col = ColIdle

Next ==
    \/ TextMelLoader_init
    \/ \E w \in Workers : \E index \in 0..1 : Call(w, index)
    \/ \E w \in Workers : Retry(w)
    \/ \E w \in Workers : Return(w)

Spec == Init /\ [][Next]_vars

\* One caller alone, for the progress of a call: the retry index is a fair
\* random choice (a call that keeps retrying draws every index again and
\* again), and a sample that passed the check is returned.
Caller == "w1"

SoloNext ==
    \/ TextMelLoader_init
    \/ \E index \in 0..1 : Call(Caller, index)
    \/ Retry(Caller)
    \/ Return(Caller)

FairSpec ==
    /\ Init /\ [][SoloNext]_vars
    /\ WF_vars(Return(Caller))
    /\ \A rv \in 0..1 : SF_vars(RetryWith(Caller, rv))

(***************************************************************************)
(* Properties of the dataset                                               *)
(***************************************************************************)
\* A manifest entry is valid: its features are non-null and within the
\* configured caps.
EntryValid(e) ==
    /\ e.mel # None
    /\ (max_mel_len = None \/ e.mel <= max_mel_len)
    /\ (max_text_len = None \/ e.text_len <= max_text_len)

EntryAt(index) == audiopaths_and_text[index + 1]
EntryOf(path) ==
    CHOOSE e \in {audiopaths_and_text[i] : i \in 1..DatasetLen} : e.path = path
HasValid == \E i \in 0..(DatasetLen - 1) : EntryValid(EntryAt(i))

\* The path of the sample a finished call returned.
ReturnedPath(w) ==
    IF workers[w].result.kind = "tuple" THEN workers[w].result.p
    ELSE workers[w].result.filenames

C2_RetryIndexDiffers ==
    [][\A w \in Workers : \A rv \in 0..1 :
          RetryWith(w, rv) => rv # workers[w].index]_vars

\* C2 as amended: a retry draws any index of 0..len-1; the sample a call
\* returns is never null or over-length, it is the sample of a valid entry,
\* hence of another entry than the invalid one the call was made with.
C2_ReturnedIsValidEntry ==
    \A w \in Workers :
        workers[w].pc = "done" =>
            /\ EntryValid(EntryOf(ReturnedPath(w)))
            /\ EntryAt(workers[w].index).path = ReturnedPath(w)
            /\ (~EntryValid(EntryAt(workers[w].first))
                   => ReturnedPath(w) # EntryAt(workers[w].first).path)

\* A call on an entry whose mel is over max_mel_len has returned the other entry.
C2_Witness ==
    \E w \in Workers :
        /\ workers[w].pc = "done"
        /\ max_mel_len # None
        /\ EntryAt(workers[w].first).mel > max_mel_len
        /\ workers[w].index # workers[w].first

\* The three conditions of a consistent configuration.
Consistent(h) ==
    /\ h.fetcher_mode \in {"lj", "mozilla_cv"}
    /\ ~(h.load_mel_from_disk /\ h.return_wavs)
    /\ (~h.needs_collate => (h.max_mel_length # None /\ h.max_text_length # None))

\* C7: __init__ returns normally exactly on the consistent configurations
\* and raises on every other; a constructed dataset satisfies the conditions,
\* and a __getitem__ call runs only on a constructed dataset and never meets
\* a missing cap.
C7_ConstructionFailsFast ==
    /\ [][(constructed = "no" /\ constructed' # "no") =>
            \A h \in HParams :
                InitEnds(h) => (constructed' = "yes" <=> Consistent(h))]_vars
    /\ [](constructed = "yes" =>
            /\ ~(load_mel_from_disk /\ return_wavs)
            /\ (~needs_collate => (max_mel_len # None /\ max_text_len # None)))
    /\ [](\A w \in Workers :
            workers[w].pc # "idle" =>
                (constructed = "yes" /\ workers[w].pc # "raised"))

\* __init__ has raised on an assertion.
C7_Witness == constructed = "AssertionError"

\* C9: with needs_collate off, every returned record has padded_text of
\* size max_text_length and padded_mel of max_mel_length frames, and its
\* lengths are those of the returned entry, each within its cap.
C9_FixedSizeRecord ==
    \A w \in Workers :
        (constructed = "yes" /\ ~needs_collate /\ workers[w].pc = "done") =>
            LET r == workers[w].result
            IN  /\ r.kind = "record"
                /\ r.padded_text = max_text_len
                /\ r.padded_mel = max_mel_len
                /\ r.input_lengths = EntryOf(r.filenames).text_len
                /\ r.output_lengths = EntryOf(r.filenames).mel
                /\ 0 <= r.input_lengths /\ r.input_lengths <= max_text_len
                /\ 0 <= r.output_lengths /\ r.output_lengths <= max_mel_len

\* After a retry, a record was returned whose text and mel were both padded.
C9_Witness ==
    \E w \in Workers :
        /\ workers[w].pc = "done"
        /\ ~needs_collate
        /\ workers[w].index # workers[w].first
        /\ workers[w].result.input_lengths < workers[w].result.padded_text
        /\ workers[w].result.output_lengths < workers[w].result.padded_mel

\* C10 as stated: after construction no step of a __getitem__ call writes
\* state that another call reads.
C10_NoSharedWrites ==
    [][constructed = "yes" => UNCHANGED <<selfVars, rng>>]_vars

\* C10 as amended: after construction the manifest list and the
\* configuration never change; the global random generator is the one shared
\* state that calls write, and only the retry of a call whose sample is
\* invalid writes it.
C10_OnlyRetriesWriteRng ==
    [][constructed = "yes" =>
          /\ UNCHANGED selfVars
          /\ (rng' # rng =>
                \E w \in Workers :
                    /\ workers[w].pc = "fetched"
                    /\ ~EntryValid(EntryAt(workers[w].index))
                    /\ workers'[w].pc = "fetched")]_vars

\* Two calls are under way and the generator has been advanced by a retry.
C10_Witness ==
    /\ rng # 0
    /\ constructed = "yes"
    /\ \A w \in Workers : workers[w].pc = "fetched"

(***************************************************************************)
(* TextMelLoader.get_mel on raw audio (MelSpec)                            *)
(*                                                                         *)
(* A waveform is a sequence of samples in fixed point: Unit stands for the *)
(* amplitude 1.0.                                                          *)
(***************************************************************************)
Unit == 8
AudioPairs == 1     \* waveforms hold 2, 4, .. 2*AudioPairs samples

Rates == {1, 2}
Amplitudes == {-2 * Unit, -Unit, 0, Unit, 2 * Unit}
Waveforms == UNION {[1..(2 * k) -> Amplitudes] : k \in 1..AudioPairs}

SeqMin(a) == CHOOSE x \in {a[i] : i \in 1..Len(a)} : \A j \in 1..Len(a) : x <= a[j]
SeqMax(a) == CHOOSE x \in {a[i] : i \in 1..Len(a)} : \A j \in 1..Len(a) : x >= a[j]

RECURSIVE SumRange(_, _, _)
SumRange(a, lo, hi) == IF lo > hi THEN 0 ELSE a[lo] + SumRange(a, lo + 1, hi)

CeilDiv(x, y) == (x + y - 1) \div y

\* torch.nn.functional.interpolate(.., scale_factor=to/from, mode='area'):
\* adaptive average pooling to floor(n * to / from) samples; output i averages
\* the inputs floor(i*n/out) .. ceil((i+1)*n/out) - 1 (0-based).
InterpolateArea(a, from, to) ==
    LET n == Len(a)
        out == (n * to) \div from
    IN  [i \in 1..out |->
            LET lo == ((i - 1) * n) \div out
                hi == CeilDiv(i * n, out)
            IN  SumRange(a, lo + 1, hi) \div (hi - lo)]

\* x.clip(-1, 1)
Clip(x) == IF x < -Unit THEN -Unit ELSE IF x > Unit THEN Unit ELSE x

\* (audio.squeeze().clip(-1,1)+1)/2
ClipAndShift(a) == [i \in 1..Len(a) |-> (Clip(a[i]) + Unit) \div 2]

OutOfRangeMaxOnly(a) == SeqMax(a) > Unit
\* (audio.min() < -1).any() or (audio.max() > 1).any()
OutOfRange(a) == SeqMin(a) < -Unit \/ SeqMax(a) > Unit

\* The file is decoded (and a .wav normalized by max_wav_value): any waveform,
\* at the file's own rate.
MelLoad ==
    /\ mel.pc = "load"
    /\ \E a \in Waveforms : \E sr \in Rates :
          mel' = [mel EXCEPT !.pc = "resample_in", !.audio = a,
                             !.file_rate = sr, !.steps = <<"load">>]
    /\ UNCHANGED <<constructed, selfVars, rng, workers, col>>

\* if sampling_rate != self.input_sample_rate: resample to it, clip and shift.
MelResampleIn ==
    /\ mel.pc = "resample_in"
    /\ IF mel.file_rate # mel.input_sample_rate
       THEN mel' = [mel EXCEPT
                !.pc = "check",
                !.audio = ClipAndShift(
                    InterpolateArea(@, mel.file_rate, mel.input_sample_rate)),
                !.steps = Append(@, "resample_in")]
       ELSE mel' = [mel EXCEPT !.pc = "check"]
    /\ UNCHANGED <<constructed, selfVars, rng, workers, col>>

\* The range check: a waveform out of [-1, 1] makes get_mel return None.
MelRangeCheck ==
    /\ mel.pc = "check"
    /\ IF OutOfRange(mel.audio)
       THEN mel' = [mel EXCEPT !.pc = "done", !.result = "None",
                               !.steps = Append(@, "check")]
       ELSE mel' = [mel EXCEPT !.pc = "resample_out",
                               !.steps = Append(@, "check")]
    /\ UNCHANGED <<constructed, selfVars, rng, workers, col>>

\* if self.input_sample_rate != self.sampling_rate: resample to sampling_rate.
MelResampleOut ==
    /\ mel.pc = "resample_out"
    /\ IF mel.input_sample_rate # mel.sampling_rate
       THEN mel' = [mel EXCEPT
                !.pc = "finish",
                !.audio = InterpolateArea(@, mel.input_sample_rate,
                                          mel.sampling_rate),
                !.steps = Append(@, "resample_out")]
       ELSE mel' = [mel EXCEPT !.pc = "finish"]
    /\ UNCHANGED <<constructed, selfVars, rng, workers, col>>

\* The waveform itself (return_wavs) or its mel spectrogram is returned.
MelFinish ==
    /\ mel.pc = "finish"
    /\ mel' = [mel EXCEPT !.pc = "done",
                          !.result = IF return_wavs THEN "wav" ELSE "melspec"]
    /\ UNCHANGED <<constructed, selfVars, rng, workers, col>>

\* A get_mel call of a loader with load_mel_from_disk off.
MelInit ==
    /\ constructed = "yes"
    /\ audiopaths_and_text = <<>>
    /\ load_mel_from_disk = FALSE
    /\ return_wavs \in BOOLEAN
    /\ max_mel_len = None
    /\ max_text_len = None
    /\ needs_collate = TRUE
    /\ rng = 0
    /\ workers = [w \in Workers |-> IdleFrame]
    /\ col = ColIdle
    /\ \E isr \in Rates : \E tsr \in Rates :
          mel = [pc |-> "load", audio |-> <<>>, file_rate |-> 0,
                 input_sample_rate |-> isr, sampling_rate |-> tsr,
                 steps |-> <<>>, result |-> "none"]

MelNext ==
    \/ MelLoad
    \/ MelResampleIn
    \/ MelRangeCheck
    \/ MelResampleOut
    \/ MelFinish

MelSpec == MelInit /\ [][MelNext]_vars

\* Some sample of the call's waveform is out of [-1, 1].
OutOfRangeAudio ==
    \E i \in 1..Len(mel.audio) : mel.audio[i] < -Unit \/ mel.audio[i] > Unit

\* The place of a step in the steps of the call, 0 when it did not run.
StepAt(name) ==
    IF \E i \in 1..Len(mel.steps) : mel.steps[i] = name
    THEN CHOOSE i \in 1..Len(mel.steps) : mel.steps[i] = name
    ELSE 0

\* C8 as stated: the range check runs after every resampling step the call
\* performs.
C8_CheckAfterAllResampling ==
    StepAt("check") > 0 =>
        /\ StepAt("resample_in") < StepAt("check")
        /\ StepAt("resample_out") < StepAt("check")

\* C8 as amended: the range check runs after the resampling to
\* input_sample_rate and before the resampling to sampling_rate; a waveform
\* that is out of [-1, 1] at the check makes get_mel return None, the call
\* then ends without resampling further, and a waveform that is returned
\* after the second resampling has no value out of [-1, 1].
C8_CheckBetweenResamplings ==
    /\ StepAt("check") > 0 => StepAt("resample_in") < StepAt("check")
    /\ StepAt("resample_out") > 0 => StepAt("check") < StepAt("resample_out")
    /\ (mel.pc = "resample_out" \/ mel.pc = "finish") => ~OutOfRangeAudio
    /\ mel.pc = "done" =>
         /\ mel.result \in {"None", "wav", "melspec"}
         /\ mel.result = "None" => StepAt("resample_out") = 0
         /\ mel.result # "None" => ~OutOfRangeAudio

\* A call returned None for an out-of-range waveform while a resampling to
\* sampling_rate was still to come.
C8_Witness ==
    /\ mel.pc = "done"
    /\ mel.result = "None"
    /\ mel.input_sample_rate # mel.sampling_rate

(***************************************************************************)
(* TextMelCollate.__call__ (CollateSpec)                                   *)
(*                                                                         *)
(* A sample is (text, mel, filename): text a sequence of token ids, mel a  *)
(* sequence of frames (a frame stands for its column of num_mels values).  *)
(* Token ids and frames of the samples are non-zero and all distinct, so   *)
(* that padding and the origin of a row can be told.                       *)
(***************************************************************************)
MaxBatch == 2       \* batches hold 1..MaxBatch samples
MaxTokens == 2      \* token counts 1..MaxTokens
MaxFrames == 3      \* mel frame counts 0..MaxFrames
MaxStep == 3        \* n_frames_per_step in 1..MaxStep

SampleOf(k, ntok, nfr) ==
    [text |-> [j \in 1..ntok |-> 10 * k + j],
     mel |-> [j \in 1..nfr |-> 100 + 10 * k + j],
     filename |-> k]

\* The batch of b samples with the token counts nt and the frame counts nf.
BatchOf(b, nt, nf) == [k \in 1..b |-> SampleOf(k, nt[k], nf[k])]

\* The orders of n elements, for n up to MaxBatch.
PermutationTable ==
    [n \in 1..MaxBatch |->
        {q \in [1..n -> 1..n] : \A i, j \in 1..n : i # j => q[i] # q[j]}]
PermutationsOf(n) == PermutationTable[n]

SortAscending(lens) ==
    {ids \in PermutationsOf(Len(lens)) :
        \A i, j \in 1..Len(lens) : i < j => lens[ids[i]] <= lens[ids[j]]}
\* torch.sort(lens, dim=0, descending=True): the orders ids_sorted_decreasing
\* may take; equal lengths may come in either order.
SortDescending(lens) ==
    {ids \in PermutationsOf(Len(lens)) :
        \A i, j \in 1..Len(lens) : i < j => lens[ids[i]] >= lens[ids[j]]}

ReorderedUnsorted(batch, ids, i) == batch[i]
\* batch[ids_sorted_decreasing[i]]
Reordered(batch, ids, i) == batch[ids[i]]

MaxOf(f) == CHOOSE x \in {f[i] : i \in 1..Len(f)} : \A j \in 1..Len(f) : x >= f[j]

RoundUpAlways(len, n) == len + (n - (len % n))
\* if max_target_len % n != 0: max_target_len += n - max_target_len % n
RoundUpToStep(len, n) ==
    IF len % n # 0 THEN len + (n - (len % n)) ELSE len

\* A row of `width` zeros with x copied to its left end: row[:len(x)] = x.
PaddedRow(x, width) == [j \in 1..width |-> IF j <= Len(x) THEN x[j] ELSE 0]

\* The 0-based position at which the slice [start:] of a row of `width`
\* elements begins: a negative start counts from the end of the row.
SliceStart(start, width) ==
    IF start < 0
    THEN (IF start + width < 0 THEN 0 ELSE start + width)
    ELSE (IF start > width THEN width ELSE start)

\* gate_padded[i, mel.size(1)-1:] = 1 on a zeroed row.
GateRow(nframes, width) ==
    [j \in 1..width |-> IF j - 1 >= SliceStart(nframes - 1, width) THEN 1 ELSE 0]

\* The dictionary __call__ returns when the sort gave ids.
CollateWith(batch, n_frames_per_step, ids) ==
    LET B == Len(batch)
        input_lengths == [i \in 1..B |-> Len(batch[ids[i]].text)]
        max_input_len == input_lengths[1]
        max_target_len ==
            RoundUpToStep(MaxOf([i \in 1..B |-> Len(batch[i].mel)]),
                          n_frames_per_step)
    IN  [padded_text |->
            [i \in 1..B |-> PaddedRow(Reordered(batch, ids, i).text, max_input_len)],
         input_lengths |-> input_lengths,
         padded_mel |->
            [i \in 1..B |-> PaddedRow(Reordered(batch, ids, i).mel, max_target_len)],
         padded_gate |->
            [i \in 1..B |-> GateRow(Len(Reordered(batch, ids, i).mel), max_target_len)],
         output_lengths |-> [i \in 1..B |-> Len(Reordered(batch, ids, i).mel)],
         filenames |-> [i \in 1..B |-> Reordered(batch, ids, i).filename],
         max_input_len |-> max_input_len,
         max_target_len |-> max_target_len]

Collate ==
    /\ col.pc = "call"
    /\ \E ids \in SortDescending([i \in 1..Len(col.batch) |-> Len(col.batch[i].text)]) :
          col' = [col EXCEPT !.pc = "done",
                    !.out = CollateWith(col.batch, col.n_frames_per_step, ids)]
    /\ UNCHANGED <<constructed, selfVars, rng, workers, mel>>

\* A collator TextMelCollate(n_frames_per_step) is about to be called on a batch.
CollateInit ==
    /\ constructed = "no"
    /\ audiopaths_and_text = <<>>
    /\ load_mel_from_disk = FALSE
    /\ return_wavs = FALSE
    /\ max_mel_len = None
    /\ max_text_len = None
    /\ needs_collate = TRUE
    /\ rng = 0
    /\ workers = [w \in Workers |-> IdleFrame]
    /\ mel = MelIdle
    /\ \E b \in 1..MaxBatch : \E n \in 1..MaxStep :
       \E nt \in [1..b -> 1..MaxTokens] : \E nf \in [1..b -> 0..MaxFrames] :
          col = [pc |-> "call", batch |-> BatchOf(b, nt, nf),
                 n_frames_per_step |-> n, out |-> [max_target_len |-> 0]]

CollateNext == Collate

CollateSpec == CollateInit /\ [][CollateNext]_vars

BatchSize == Len(col.batch)
LongestMel == MaxOf([i \in 1..BatchSize |-> Len(col.batch[i].mel)])
LongestText == MaxOf([i \in 1..BatchSize |-> Len(col.batch[i].text)])

\* C3: max_target_len, the width of padded_mel and padded_gate, is the
\* smallest multiple of n_frames_per_step that is at least the longest mel of
\* the batch (the longest mel itself when that is aligned), for every batch
\* size from 1 on.
C3_TargetLenAligned ==
    col.pc = "done" =>
        LET n == col.n_frames_per_step
            T == col.out.max_target_len
        IN  /\ T % n = 0
            /\ T >= LongestMel
            /\ T - LongestMel < n
            /\ (LongestMel % n = 0 => T = LongestMel)
            /\ \A i \in 1..BatchSize :
                  /\ Len(col.out.padded_mel[i]) = T
                  /\ Len(col.out.padded_gate[i]) = T

\* A batch of one sample whose mel was rounded up.
C3_Witness ==
    /\ col.pc = "done"
    /\ BatchSize = 1
    /\ col.out.max_target_len > LongestMel

\* C4: gate row i is 1.0 from position output_lengths[i]-1 through the last
\* position and 0.0 before, whatever the frame count of the sample.
C4_GateFromLastFrame ==
    col.pc = "done" =>
        \A i \in 1..BatchSize : \A j \in 0..(col.out.max_target_len - 1) :
            col.out.padded_gate[i][j + 1] =
                (IF j >= col.out.output_lengths[i] - 1 THEN 1 ELSE 0)

\* C5: input_lengths is in descending order and its first element is the
\* longest token count of the batch, the width of padded_text.
C5_InputLengthsDescending ==
    col.pc = "done" =>
        /\ \A i, j \in 1..BatchSize :
              i < j => col.out.input_lengths[i] >= col.out.input_lengths[j]
        /\ col.out.input_lengths[1] = LongestText
        /\ col.out.max_input_len = LongestText
        /\ \A i \in 1..BatchSize : Len(col.out.padded_text[i]) = LongestText

\* A batch given with a shorter text before a longer one was collated.
C5_Witness ==
    /\ col.pc = "done"
    /\ BatchSize >= 2
    /\ Len(col.batch[1].text) < Len(col.batch[2].text)

\* C6: one permutation of the samples gives every field of the batch: row i
\* of padded_text and padded_mel is the tokens and the frames of sample
\* perm[i], left-aligned and followed by zeros, and input_lengths[i],
\* output_lengths[i], filenames[i] are that sample's counts and path.
C6_OnePermutation ==
    col.pc = "done" =>
        \E perm \in PermutationsOf(BatchSize) :
            \A i \in 1..BatchSize :
                LET x == col.batch[perm[i]]
                    o == col.out
                IN  /\ SubSeq(o.padded_text[i], 1, Len(x.text)) = x.text
                    /\ \A j \in (Len(x.text) + 1)..Len(o.padded_text[i]) :
                          o.padded_text[i][j] = 0
                    /\ SubSeq(o.padded_mel[i], 1, Len(x.mel)) = x.mel
                    /\ \A j \in (Len(x.mel) + 1)..Len(o.padded_mel[i]) :
                          o.padded_mel[i][j] = 0
                    /\ o.input_lengths[i] = Len(x.text)
                    /\ o.output_lengths[i] = Len(x.mel)
                    /\ o.filenames[i] = x.filename

\* A batch was reordered: its first row is not its first sample.
C6_Witness ==
    /\ col.pc = "done"
    /\ BatchSize >= 2
    /\ col.out.filenames[1] # col.batch[1].filename
    /\ Len(col.batch[1].text) < col.out.max_input_len

====
